---- MODULE Spec2Model ----
(***************************************************************************)
(* Model of hooks/post_gen_project.py: the post-generation hook that       *)
(* prunes a generated Kedro project according to the selected tools.       *)
(*                                                                         *)
(* Three specifications share one set of variables:                        *)
(*   SpecSection  _remove_nested_section applied to a bounded document     *)
(*   SpecFile     _remove_from_file applied once and twice                 *)
(*   Spec         main(): conversion, setup_template_tools, sort           *)
(*                                                                         *)
(* Strings are sequences of atoms.  An atom is a whitespace character, a   *)
(* separator character, or an opaque run of other characters.              *)
(***************************************************************************)
EXTENDS Integers, Sequences, FiniteSets, TLC

VARIABLES
    \* _remove_nested_section
    data0,        \* the document before the call
    data,         \* the document (mutated in place by the call)
    keys,         \* nested_key.split(".")
    sect_pc,      \* "ready" | "returned" | "raised"
    sect_err,     \* the exception of a raised call, "" otherwise
    \* _remove_from_file
    file0,              \* the file's content before the first call
    content_to_remove,  \* the block
    file_content,       \* the file's content now
    after_first,        \* the file's content after the first call
    calls,              \* calls made so far
    \* main
    project_tools,        \* full_conf["answers"]["user"]["project_tools"]
    example_pipeline,     \* full_conf["answers"]["user"]["example_pipeline"]
    selected_tools_list,  \* the converted selection, << >> before conversion
    requirements,         \* content of requirements.txt
    pyproject,            \* pyproject.toml: [ok |-> it parses, data |-> its document]
    fs,                   \* paths that exist below the project directory
    catalog_yml,          \* content of conf/base/catalog.yml
    requirements0,        \* the three files and the tree as generated
    pyproject0,
    fs0,
    catalog_yml0,
    pc,                   \* the statement main is at
    run_err,              \* the exception that aborted the run, "" otherwise
    log                   \* the calls completed so far, in order

sectVars == <<data0, data, keys, sect_pc, sect_err>>
fileVars == <<file0, content_to_remove, file_content, after_first, calls>>

mainVars == <<project_tools, example_pipeline, selected_tools_list, requirements,
              pyproject, fs, catalog_yml, requirements0, pyproject0, fs0,
              catalog_yml0, pc, run_err, log>>
inputVars == <<project_tools, example_pipeline, requirements0, pyproject0, fs0, catalog_yml0>>

vars == <<sectVars, fileVars, mainVars>>

(***************************************************************************)
(* Bounds                                                                  *)
(***************************************************************************)
MaxNodes == 4      \* nodes (sections and values) of a generated document
MaxPathLen == 4    \* keys of a generated dotted path
MaxFileLen == 4    \* atoms of a generated file
MaxBlockLen == 3   \* atoms of a generated block
MaxTools == 3      \* comma-separated entries of a generated tool selection

KeyNames == {"a", "b"}

(***************************************************************************)
(* Documents.  toml.load gives nested dicts; a document is the function    *)
(* from the key path of every node below the root to the node's kind:      *)
(*   "table"  a dict (a TOML section)                                      *)
(*   "str"    a string value not containing the key: `key in value` is     *)
(*            False, value.pop raises AttributeError                       *)
(*   "num"    an int, float or bool value: `key in value` raises TypeError *)
(*            and value.pop raises AttributeError                          *)
(* The domain is prefix closed and only tables have children.  The root    *)
(* (path << >>) is always a table.                                         *)
(***************************************************************************)
IsPrefix(p, q) == Len(p) <= Len(q) /\ SubSeq(q, 1, Len(p)) = p

KindAt(d, p) == IF p = << >> THEN "table" ELSE d[p]

Has(d, p) == p = << >> \/ p \in DOMAIN d

\* the keys of the dict at path p
Children(d, p) == {q \in DOMAIN d : Len(q) = Len(p) + 1 /\ IsPrefix(p, q)}

\* `key in current_data` for a dict current_data at path p
HasKey(d, p, key) == Append(p, key) \in DOMAIN d

\* `not current_data` for a dict current_data at path p
IsEmptySection(d, p) == Children(d, p) = {}

\* current_data.pop(key, None) for a dict current_data at path p: the key and
\* everything below it leave the document; an absent key changes nothing
Pop(d, p, key) ==
    LET gone == {q \in DOMAIN d : IsPrefix(Append(p, key), q)}
    IN  [q \in (DOMAIN d) \ gone |-> d[q]]

\* keys.index(key): the FIRST position holding key (1-based here)
Index(ks, key) == CHOOSE i \in 1..Len(ks) : ks[i] = key /\ \A j \in 1..(i-1) : ks[j] # key

(***************************************************************************)
(* _remove_nested_section(data, nested_key)                                *)
(***************************************************************************)
Outcome(d, status, err) == [data |-> d, status |-> status, err |-> err]

\* a faulty variant: the walk does not stop at a non-empty section
RECURSIVE PruneWalk_NoBreak(_, _, _, _)
PruneWalk_NoBreak(d, ks, i, cur) ==
    IF i = 0 THEN Outcome(d, "returned", "")
    ELSE
        LET key == ks[i]
            parent_section == SubSeq(ks, 1, Index(ks, key) - 1)
        IN  IF ~Has(d, parent_section)
            THEN Outcome(d, "raised", "KeyError")
            ELSE PruneWalk_NoBreak(Pop(d, parent_section, key), ks, i - 1, parent_section)

\* lines 78-86: for key in reversed(keys[:-1]), at position i, with
\* current_data the dict at path cur
RECURSIVE PruneWalk(_, _, _, _)
PruneWalk(d, ks, i, cur) ==
    IF i = 0 THEN Outcome(d, "returned", "")
    ELSE
        LET key == ks[i]
            \* keys[: keys.index(key)], re-descended from the root
            parent_section == SubSeq(ks, 1, Index(ks, key) - 1)
        IN  IF ~Has(d, parent_section)
            THEN Outcome(d, "raised", "KeyError")          \* parent_section[key_part]
            ELSE IF IsEmptySection(d, cur)
                 THEN PruneWalk(Pop(d, parent_section, key), ks, i - 1, parent_section)
                 ELSE Outcome(d, "returned", "")           \* break

\* lines 70-74: for key in keys[:-1], at position i, current_data at ks[1..i-1]
RECURSIVE Descend(_, _, _)
Descend(d, ks, i) ==
    IF i = Len(ks) THEN "found"
    ELSE
        LET cur == SubSeq(ks, 1, i - 1)
        IN  CASE KindAt(d, cur) = "num" -> "TypeError"     \* key in <number>
              [] KindAt(d, cur) = "str" -> "absent"        \* key in <string> is False
              [] OTHER -> IF HasKey(d, cur, ks[i])
                          THEN Descend(d, ks, i + 1)
                          ELSE "absent"                    \* return

_remove_nested_section(d, ks) ==
    LET n == Len(ks)
        walk == Descend(d, ks, 1)
        current_data == SubSeq(ks, 1, n - 1)
    IN  CASE walk = "TypeError" -> Outcome(d, "raised", "TypeError")
          [] walk = "absent" -> Outcome(d, "returned", "")
          [] OTHER ->
               IF KindAt(d, current_data) # "table"
               THEN Outcome(d, "raised", "AttributeError")  \* <value>.pop
               ELSE PruneWalk(Pop(d, current_data, ks[n]), ks, n - 1, current_data)

(***************************************************************************)
(* The spec's reference form of the pruning walk (spec section 9): a       *)
(* direct backward walk over the nodes visited during the descent.         *)
(***************************************************************************)
RECURSIVE BackwardPrune(_, _, _)
BackwardPrune(d, ks, i) ==
    IF i = 0 THEN Outcome(d, "returned", "")
    ELSE IF IsEmptySection(d, SubSeq(ks, 1, i))
         THEN BackwardPrune(Pop(d, SubSeq(ks, 1, i - 1), ks[i]), ks, i - 1)
         ELSE Outcome(d, "returned", "")

BackwardWalk(d, ks) ==
    LET n == Len(ks)
        walk == Descend(d, ks, 1)
        current_data == SubSeq(ks, 1, n - 1)
    IN  CASE walk = "TypeError" -> Outcome(d, "raised", "TypeError")
          [] walk = "absent" -> Outcome(d, "returned", "")
          [] OTHER ->
               IF KindAt(d, current_data) # "table"
               THEN Outcome(d, "raised", "AttributeError")
               ELSE BackwardPrune(Pop(d, current_data, ks[n]), ks, n - 1)

(***************************************************************************)
(* Strings (sequences of atoms) and the str / file methods the code uses   *)
(***************************************************************************)
Whitespace == {" ", "\n", "\t"}

\* positions of atom c in s
Positions(s, c) == {i \in 1..Len(s) : s[i] = c}

First(S) == CHOOSE i \in S : \A j \in S : i <= j

Last(S) == CHOOSE i \in S : \A j \in S : j <= i

\* s.split(sep) for a one-character separator: always at least one piece
RECURSIVE Split(_, _)
Split(s, sep) ==
    IF Positions(s, sep) = {} THEN <<s>>
    ELSE LET i == First(Positions(s, sep))
         IN  <<SubSeq(s, 1, i - 1)>> \o Split(SubSeq(s, i + 1, Len(s)), sep)

\* s.strip()
RECURSIVE LStrip(_)
LStrip(s) == IF s # << >> /\ Head(s) \in Whitespace THEN LStrip(Tail(s)) ELSE s

RECURSIVE RStrip(_)
RStrip(s) ==
    IF s # << >> /\ s[Len(s)] \in Whitespace THEN RStrip(SubSeq(s, 1, Len(s) - 1)) ELSE s

Strip(s) == RStrip(LStrip(s))

\* file.readlines(): every line keeps its "\n"; a last line may have none
RECURSIVE ReadLines(_)
ReadLines(s) ==
    IF s = << >> THEN << >>
    ELSE IF Positions(s, "\n") = {} THEN <<s>>
    ELSE LET i == First(Positions(s, "\n"))
         IN  <<SubSeq(s, 1, i)>> \o ReadLines(SubSeq(s, i + 1, Len(s)))

\* file.writelines(lines)
RECURSIVE WriteLines(_)
WriteLines(lines) ==
    IF lines = << >> THEN << >> ELSE Head(lines) \o WriteLines(Tail(lines))

Elements(seq) == {seq[i] : i \in DOMAIN seq}

(***************************************************************************)
(* _remove_from_file(file_path, content_to_remove), on the file's content  *)
(***************************************************************************)
\* a faulty variant: the file's lines are compared unstripped
RemoveFromFile_NoStrip(content, block) ==
    LET lines == ReadLines(content)
        pieces == Split(block, "\n")
        content_to_remove_lines == {Strip(pieces[i]) : i \in DOMAIN pieces}
        Keep(line) == line \notin content_to_remove_lines
    IN  WriteLines(SelectSeq(lines, Keep))

_remove_from_file(content, block) ==
    LET lines == ReadLines(content)
        pieces == Split(block, "\n")
        content_to_remove_lines == {Strip(pieces[i]) : i \in DOMAIN pieces}
        Keep(line) == Strip(line) \notin content_to_remove_lines
    IN  WriteLines(SelectSeq(lines, Keep))

(***************************************************************************)
(* Module constants of post_gen_project.py                                 *)
(***************************************************************************)
NUMBER_TO_TOOLS_NAME ==
    "1" :> "Linting" @@ "2" :> "Testing" @@ "3" :> "Custom Logging" @@
    "4" :> "Documentation" @@ "5" :> "Data Structure" @@ "6" :> "PySpark" @@
    "7" :> "Kedro Viz"

lint_requirements == <<"ruff~=0.1.8", "\n">>

\* dotted paths, written as the key lists nested_key.split(".") gives
lint_pyproject_requirements == << <<"tool", "ruff">>, <<"tool", "ruff", "format">> >>

test_requirements ==
    <<"pytest-cov~=3.0", "\n", "pytest-mock>=1.7.1,", " ", "<2.0", "\n", "pytest~=7.2">>

test_pyproject_requirements ==
    << <<"tool", "pytest", "ini_options">>, <<"tool", "coverage", "report">> >>

docs_pyproject_requirements == << <<"project", "optional-dependencies">> >>

example_pipeline_requirements == <<"seaborn~=0.12.1", "\n", "scikit-learn~=1.0", "\n">>

(***************************************************************************)
(* _remove_from_toml(file_path, sections_to_remove), on the file           *)
(***************************************************************************)
RECURSIVE RemoveSections(_, _, _)
RemoveSections(d, sections, i) ==
    IF i > Len(sections) THEN Outcome(d, "returned", "")
    ELSE LET out == _remove_nested_section(d, sections[i])
         IN  IF out.status = "raised" THEN out
             ELSE RemoveSections(out.data, sections, i + 1)

\* a faulty variant: a file that does not parse is taken for an empty document
RemoveFromToml_SwallowsParseError(file, sections_to_remove) ==
    RemoveSections(IF file.ok THEN file.data ELSE << >>, sections_to_remove, 1)

\* the outcome's data is what toml.dump writes back; nothing is written when
\* toml.load or a removal raises
_remove_from_toml(file, sections_to_remove) ==
    IF ~file.ok THEN Outcome(file.data, "raised", "TomlDecodeError")
    ELSE RemoveSections(file.data, sections_to_remove, 1)

(***************************************************************************)
(* Paths: a path is the sequence of its names, a name the sequence of its  *)
(* atoms, the last atom of a multi-atom name being its suffix.             *)
(***************************************************************************)
PlainPath(names) == [i \in DOMAIN names |-> <<names[i]>>]

Suffix(name) == IF Len(name) >= 2 THEN name[Len(name)] ELSE ""

ParentOf(path) == SubSeq(path, 1, Len(path) - 1)

FileName(path) == path[Len(path)]

\* _remove_dir(path): shutil.rmtree if it exists
_remove_dir(tree, path) ==
    IF path \in tree THEN {q \in tree : ~IsPrefix(path, q)} ELSE tree

\* _remove_file(path): unlink if it exists
_remove_file(tree, path) == IF path \in tree THEN tree \ {path} ELSE tree

python_package_name == "project_name"

TestsDir == PlainPath(<<"tests">>)
DocsDir == PlainPath(<<"docs">>)
DataDir == PlainPath(<<"data">>)
LoggingYml == PlainPath(<<"conf">>) \o << <<"logging", ".yml">> >>
CatalogYml == PlainPath(<<"conf", "base">>) \o << <<"catalog", ".yml">> >>
RawDataDir == PlainPath(<<"data", "01_raw">>)
ConfBaseDir == PlainPath(<<"conf", "base">>)
PipelinesDir == PlainPath(<<"src", python_package_name, "pipelines">>)
TestDataScience == PlainPath(<<"tests", "pipelines">>) \o << <<"test_data_science", ".py">> >>
ReportingDir == PipelinesDir \o PlainPath(<<"reporting">>)

\* data/01_raw/*.* with suffix .csv or .xlsx
RawDatasets(tree) ==
    {q \in tree : ParentOf(q) = RawDataDir /\ Suffix(FileName(q)) \in {".csv", ".xlsx"}}

\* conf/base/parameters_*.yml and conf/base/parameters/*.yml
ParameterFiles(tree) ==
    {q \in tree :
        \/ /\ ParentOf(q) = ConfBaseDir
           /\ Head(FileName(q)) = "parameters_"
           /\ Suffix(FileName(q)) = ".yml"
        \/ /\ ParentOf(q) = ConfBaseDir \o PlainPath(<<"parameters">>)
           /\ Suffix(FileName(q)) = ".yml"}

pipelines_to_remove(is_viz) ==
    {"data_science", "data_processing"} \cup (IF is_viz THEN {"reporting"} ELSE {})

\* _remove_pyspark_viz_starter_files: what it leaves of the tree
_remove_pyspark_viz_starter_files(is_viz, tree) ==
    LET no_raw == tree \ RawDatasets(tree)
        no_params == no_raw \ ParameterFiles(no_raw)
        no_pipelines ==
            {q \in no_params :
                \A sub \in pipelines_to_remove(is_viz) :
                    ~IsPrefix(PipelinesDir \o PlainPath(<<sub>>), q)}
    IN  _remove_file(no_pipelines, TestDataScience)

\* "kedro-datasets[" in line
HasExtras(line) ==
    \E i \in 1..(Len(line) - 1) : line[i] = "kedro-datasets" /\ line[i + 1] = "["

\* line.split("[", 1)[0] + line.split("]")[-1]
WithoutExtras(line) ==
    LET package == SubSeq(line, 1, First(Positions(line, "[")) - 1)
        version == IF Positions(line, "]") = {} THEN line
                   ELSE SubSeq(line, Last(Positions(line, "]")) + 1, Len(line))
    IN  package \o version

_remove_extras_from_kedro_datasets(content) ==
    LET lines == ReadLines(content)
    IN  WriteLines([i \in DOMAIN lines |->
                       IF HasExtras(lines[i]) THEN WithoutExtras(lines[i]) ELSE lines[i]])

(***************************************************************************)
(* sort_requirements: pre_commit_hooks' fix_requirements, an external      *)
(* normalizer.  Its effect here: blank lines dropped, every line ended by  *)
(* a newline, lines ordered by requirement name, duplicates dropped.       *)
(***************************************************************************)
NameOrder ==
    <<"kedro-datasets", "kedro~=0.19.0", "pytest-cov~=3.0", "pytest-mock>=1.7.1,",
      "pytest~=7.2", "ruff~=0.1.8", "scikit-learn~=1.0", "seaborn~=0.12.1">>

Rank(line) ==
    IF Positions(NameOrder, Head(line)) = {} THEN 0
    ELSE First(Positions(NameOrder, Head(line)))

RECURSIVE SortedLines(_)
SortedLines(lineset) ==
    IF lineset = {} THEN << >>
    ELSE LET least == CHOOSE l \in lineset : \A m \in lineset : Rank(l) <= Rank(m)
         IN  <<least>> \o SortedLines(lineset \ {least})

sort_requirements(content) ==
    LET lines == ReadLines(content)
        entries == {Strip(lines[i]) \o <<"\n">> : i \in DOMAIN lines} \ {<<"\n">>}
    IN  WriteLines(SortedLines(entries))

(***************************************************************************)
(* _convert_tool_numbers_to_readable_names(tools_numbers)                  *)
(***************************************************************************)
\* NUMBER_TO_TOOLS_NAME[tool] finds its key
KnownTool(tool) == Len(tool) = 1 /\ tool[1] \in DOMAIN NUMBER_TO_TOOLS_NAME

_convert_tool_numbers_to_readable_names(tools_numbers) ==
    IF \E i \in DOMAIN tools_numbers : ~KnownTool(tools_numbers[i])
    THEN [status |-> "raised", err |-> "KeyError", names |-> << >>]
    ELSE LET tools_names ==
                 [i \in DOMAIN tools_numbers |-> NUMBER_TO_TOOLS_NAME[tools_numbers[i][1]]]
         IN  [status |-> "returned", err |-> "",
              names |-> IF tools_names = << >> THEN <<"None">> ELSE tools_names]

(***************************************************************************)
(* Bounded inputs of SpecSection                                            *)
(***************************************************************************)
RECURSIVE PathsOfLen(_)
PathsOfLen(n) ==
    IF n = 0 THEN {<< >>}
    ELSE {Append(p, k) : p \in PathsOfLen(n - 1), k \in KeyNames}

DottedPaths == UNION {PathsOfLen(n) : n \in 1..MaxPathLen}

\* documents of at most n nodes, grown one node at a time under a table
RECURSIVE DocsUpTo(_)
DocsUpTo(n) ==
    IF n = 0 THEN {<< >>}
    ELSE LET smaller == DocsUpTo(n - 1)
             Grow(d) ==
                 {[q \in (DOMAIN d) \cup {Append(p, k)} |->
                      IF q = Append(p, k) THEN kind ELSE d[q]] :
                  <<p, k, kind>> \in
                      {t \in ({<< >>} \cup DOMAIN d) \X KeyNames \X {"table", "str", "num"} :
                          /\ KindAt(d, t[1]) = "table"
                          /\ Append(t[1], t[2]) \notin DOMAIN d}}
         IN  smaller \cup UNION {Grow(d) : d \in smaller}

Documents == DocsUpTo(MaxNodes)

(***************************************************************************)
(* Each specification parks the variables of the other two                 *)
(***************************************************************************)
SectionIdle ==
    /\ data0 = << >>
    /\ data = << >>
    /\ keys = << >>
    /\ sect_pc = "idle"
    /\ sect_err = ""

FileIdle ==
    /\ file0 = << >>
    /\ content_to_remove = << >>
    /\ file_content = << >>
    /\ after_first = << >>
    /\ calls = 0

MainIdle ==
    /\ project_tools = << >>
    /\ example_pipeline = FALSE
    /\ selected_tools_list = << >>
    /\ requirements = << >>
    /\ pyproject = [ok |-> TRUE, data |-> << >>]
    /\ fs = {}
    /\ catalog_yml = << >>
    /\ requirements0 = << >>
    /\ pyproject0 = [ok |-> TRUE, data |-> << >>]
    /\ fs0 = {}
    /\ catalog_yml0 = << >>
    /\ pc = "idle"
    /\ run_err = ""
    /\ log = << >>

(***************************************************************************)
(* SpecSection                                                             *)
(***************************************************************************)
InitSection ==
    /\ data0 \in Documents
    /\ data = data0
    /\ keys \in DottedPaths
    /\ sect_pc = "ready"
    /\ sect_err = ""
    /\ FileIdle
    /\ MainIdle

RemoveNestedSection ==
    /\ sect_pc = "ready"
    /\ LET out == _remove_nested_section(data, keys)
       IN  /\ data' = out.data
           /\ sect_pc' = out.status
           /\ sect_err' = out.err
    /\ UNCHANGED <<data0, keys>>
    /\ UNCHANGED <<fileVars, mainVars>>

NextSection == RemoveNestedSection

SpecSection == InitSection /\ [][NextSection]_vars

(***************************************************************************)
(* Claims about _remove_nested_section (checked under SpecSection)         *)
(***************************************************************************)
Called == sect_pc # "ready"

KeyPrefix(j) == SubSeq(keys, 1, j)

\* every key of the dotted path is present in the document before the call
AllKeysPresent == \A j \in 1..Len(keys) : KeyPrefix(j) \in DOMAIN data0

\* some key of the dotted path is absent from the document before the call
SomeKeyAbsent == \E j \in 1..Len(keys) : KeyPrefix(j) \notin DOMAIN data0

\* the ancestor at depth j holds nothing but the path below it, down to the
\* final key: it becomes empty once the final key is deleted
BecomesEmpty(j) ==
    \A m \in j..(Len(keys) - 1) : Children(data0, KeyPrefix(m)) = {KeyPrefix(m + 1)}

\* the document the claim expects: the final key (with what is below it) and
\* the ancestors that thereby became empty are gone, all else is as before
ExpectedAfterRemoval ==
    LET gone == {q \in DOMAIN data0 :
                    \/ IsPrefix(keys, q)
                    \/ \E j \in 1..(Len(keys) - 1) : q = KeyPrefix(j) /\ BecomesEmpty(j)}
    IN  [q \in (DOMAIN data0) \ gone |-> data0[q]]

\* C1: with every key of the path present, the call deletes the final key and
\* exactly the ancestors that became empty, stopping at the first non-empty
\* ancestor, and changes nothing off the path.
C1_CollapsesOnlyEmptyAncestors ==
    (Called /\ AllKeysPresent) =>
        (sect_pc = "returned" /\ data = ExpectedAfterRemoval)

\* the first absent key of the path and the node it is looked up in
FirstAbsent == CHOOSE j \in 1..Len(keys) :
                  KeyPrefix(j) \notin DOMAIN data0
                  /\ \A m \in 1..(j - 1) : KeyPrefix(m) \in DOMAIN data0

AbsentFromSection ==
    SomeKeyAbsent /\ KindAt(data0, KeyPrefix(FirstAbsent - 1)) = "table"

\* C2 as stated: a path with any absent key leaves the document exactly as it
\* was, already-empty sections on the path included, and does not raise.
C2_AbsentPathIsNoOp ==
    (Called /\ SomeKeyAbsent) => (sect_pc = "returned" /\ data = data0)

\* C2 amended: the call is a no-op that does not raise when an intermediate
\* key is absent from its parent section, and when the final key is absent
\* from a parent section that is the root or is non-empty; a final key absent
\* from an already-empty parent section has that parent removed.
C2_AbsentPathIsNoOpUnlessParentEmpty ==
    /\ (Called /\ AbsentFromSection
           /\ (\/ FirstAbsent < Len(keys)
               \/ Len(keys) = 1
               \/ ~IsEmptySection(data0, KeyPrefix(Len(keys) - 1))))
       => (sect_pc = "returned" /\ data = data0)
    /\ (Called /\ AbsentFromSection
           /\ FirstAbsent = Len(keys) /\ Len(keys) >= 2
           /\ IsEmptySection(data0, KeyPrefix(Len(keys) - 1)))
       => KeyPrefix(Len(keys) - 1) \notin DOMAIN data

\* C2 witness: the final key of a nested path was absent from a non-empty
\* parent section and the call has returned.
C2_Witness ==
    /\ sect_pc = "returned"
    /\ AbsentFromSection
    /\ Len(keys) >= 2
    /\ FirstAbsent = Len(keys)
    /\ ~IsEmptySection(data0, KeyPrefix(Len(keys) - 1))

\* C10: the re-descending walk of the code and the direct backward walk over
\* the visited nodes end in the same document and the same outcome.
C10_SameAsBackwardWalk ==
    Called => Outcome(data, sect_pc, sect_err) = BackwardWalk(data0, keys)

(***************************************************************************)
(* SpecFile: _remove_from_file called once and then once more              *)
(***************************************************************************)
FileAtoms == {"x", " ", "\n"}

RECURSIVE StringsOfLen(_)
StringsOfLen(n) ==
    IF n = 0 THEN {<< >>}
    ELSE {Append(s, c) : s \in StringsOfLen(n - 1), c \in FileAtoms}

StringsUpTo(n) == UNION {StringsOfLen(m) : m \in 0..n}

InitFile ==
    /\ file0 \in StringsUpTo(MaxFileLen)
    /\ content_to_remove \in StringsUpTo(MaxBlockLen)
    /\ file_content = file0
    /\ after_first = << >>
    /\ calls = 0
    /\ SectionIdle
    /\ MainIdle

RemoveFromFile ==
    /\ calls < 2
    /\ file_content' = _remove_from_file(file_content, content_to_remove)
    /\ after_first' = IF calls = 0 THEN file_content' ELSE after_first
    /\ calls' = calls + 1
    /\ UNCHANGED <<file0, content_to_remove>>
    /\ UNCHANGED <<sectVars, mainVars>>

NextFile == RemoveFromFile

SpecFile == InitFile /\ [][NextFile]_vars

(***************************************************************************)
(* Claims about _remove_from_file (checked under SpecFile)                 *)
(***************************************************************************)
\* the block's lines are its pieces between newlines, as the code takes them
\* (a block ending in "\n" has an empty last line, which matches blank lines)
BlockLines == Elements(Split(content_to_remove, "\n"))

MatchesBlock(line) == \E b \in BlockLines : Strip(line) = Strip(b)

KeptLine(line) == ~MatchesBlock(line)

\* C9: one call leaves the original lines, in order, less exactly those whose
\* stripped form equals the stripped form of a line of the block; a second
\* call with the same block changes nothing.
C9_RemoveFromFileIdempotent ==
    /\ calls >= 1 =>
          /\ ReadLines(after_first) = SelectSeq(ReadLines(file0), KeptLine)
          /\ after_first = WriteLines(SelectSeq(ReadLines(file0), KeptLine))
    /\ calls = 2 => file_content = after_first

\* C9 witness: two calls made on a file that had a line to remove and a line
\* to keep, the removed line matching the block only after stripping.
C9_Witness ==
    /\ calls = 2
    /\ file_content # << >>
    /\ \E i \in DOMAIN ReadLines(file0) :
          /\ MatchesBlock(ReadLines(file0)[i])
          /\ Strip(ReadLines(file0)[i]) # << >>
          /\ ReadLines(file0)[i] \notin BlockLines

(***************************************************************************)
(* setup_template_tools: the conditions of its six rules                   *)
(***************************************************************************)
\* a faulty variant: an inverted test
LintAbsent_Inverted(selected) == "Linting" \in Elements(selected)

LintAbsent(selected) == "Linting" \notin Elements(selected)

TestAbsent(selected) == "Testing" \notin Elements(selected)

\* the catalog's name is "Custom Logging": "Logging" is never in the list
LoggingAbsent(selected) == "Logging" \notin Elements(selected)

DocsAbsent(selected) == "Documentation" \notin Elements(selected)

DataAbsent(selected, example) == "Data Structure" \notin Elements(selected) /\ ~example

\* a faulty variant: the example_pipeline flag is forgotten
StarterCleanup_IgnoresExample(selected, example) ==
    "PySpark" \in Elements(selected) \/ "Kedro Viz" \in Elements(selected)

StarterCleanup(selected, example) ==
    ("PySpark" \in Elements(selected) \/ "Kedro Viz" \in Elements(selected)) /\ ~example

(***************************************************************************)
(* main: the statement after each statement.  setup_template_tools runs    *)
(* its rules in source order (lines 214-243), then main sorts (line 283).  *)
(***************************************************************************)
\* a faulty variant: the manifest is sorted before the starter cleanup
Following_SortBeforeStarter(step) ==
    CASE step = "convert" -> "lint"
      [] step = "lint" -> "test"
      [] step = "test" -> "logging"
      [] step = "logging" -> "docs"
      [] step = "docs" -> "data"
      [] step = "data" -> "sort"
      [] step = "sort" -> "starter"
      [] step = "starter" -> "done"

Following(step) ==
    CASE step = "convert" -> "lint"
      [] step = "lint" -> "test"
      [] step = "test" -> "logging"
      [] step = "logging" -> "docs"
      [] step = "docs" -> "data"
      [] step = "data" -> "starter"
      [] step = "starter" -> "sort"
      [] step = "sort" -> "done"

(***************************************************************************)
(* The generated project main runs on.  The template is not part of the    *)
(* hook: two generated trees (the starter with its example pipeline files, *)
(* the plain project) and three build configurations are drawn.            *)
(***************************************************************************)
DocOf(tables, strs, nums) ==
    [q \in tables \cup strs \cup nums |->
        IF q \in tables THEN "table" ELSE IF q \in strs THEN "str" ELSE "num"]

FullPyproject ==
    DocOf({<<"project">>, <<"project", "optional-dependencies">>,
           <<"tool">>, <<"tool", "kedro">>, <<"tool", "ruff">>,
           <<"tool", "ruff", "format">>, <<"tool", "pytest">>,
           <<"tool", "pytest", "ini_options">>, <<"tool", "coverage">>,
           <<"tool", "coverage", "report">>},
          {<<"project", "name">>, <<"project", "optional-dependencies", "docs">>,
           <<"tool", "kedro", "package_name">>,
           <<"tool", "pytest", "ini_options", "addopts">>},
          {<<"tool", "ruff", "line-length">>,
           <<"tool", "ruff", "format", "docstring-code-format">>,
           <<"tool", "coverage", "report", "fail_under">>})

\* only the optional sections: removing them all empties the document
OptionalOnlyPyproject ==
    DocOf({<<"project">>, <<"project", "optional-dependencies">>,
           <<"tool">>, <<"tool", "ruff">>, <<"tool", "pytest">>,
           <<"tool", "pytest", "ini_options">>},
          {<<"project", "optional-dependencies", "docs">>},
          {<<"tool", "ruff", "line-length">>})

Pyprojects ==
    {[ok |-> FALSE, data |-> << >>],
     [ok |-> TRUE, data |-> FullPyproject],
     [ok |-> TRUE, data |-> OptionalOnlyPyproject]}

PlainTree ==
    {TestsDir, TestsDir \o << <<"test_run", ".py">> >>,
     DocsDir, DocsDir \o PlainPath(<<"source">>),
     DataDir, RawDataDir, RawDataDir \o << <<".gitkeep">> >>,
     PlainPath(<<"conf">>), LoggingYml, ConfBaseDir, CatalogYml,
     ConfBaseDir \o << <<"parameters", ".yml">> >>,
     PlainPath(<<"src">>), PlainPath(<<"src", python_package_name>>), PipelinesDir}

StarterTree ==
    PlainTree \cup
    {RawDataDir \o << <<"companies", ".csv">> >>,
     RawDataDir \o << <<"shuttles", ".xlsx">> >>,
     ConfBaseDir \o << <<"parameters_", "data_science", ".yml">> >>,
     PipelinesDir \o PlainPath(<<"data_science">>),
     PipelinesDir \o PlainPath(<<"data_processing">>),
     ReportingDir,
     PlainPath(<<"tests", "pipelines">>), TestDataScience}

PlainRequirements ==
    <<"kedro~=0.19.0", "\n", "\n", " ", "ruff~=0.1.8", "\n", "pytest~=7.2", "\n",
      "pytest-cov~=3.0", "\n", "pytest-mock>=1.7.1,", " ", "<2.0", "\n",
      "kedro-datasets", ">=1.0">>

StarterRequirements ==
    <<"kedro-datasets", "[", "pandas,", " ", "spark", "]", ">=1.0", "\n",
      "kedro~=0.19.0", "\n", "pytest-cov~=3.0", "\n",
      "pytest-mock>=1.7.1,", " ", "<2.0", "\n", "pytest~=7.2", "\n",
      "ruff~=0.1.8", "\n", "scikit-learn~=1.0", "\n", "seaborn~=0.12.1", "\n">>

Projects ==
    {[tree |-> PlainTree, requirements |-> PlainRequirements, catalog |-> << >>],
     [tree |-> StarterTree, requirements |-> StarterRequirements,
      catalog |-> <<"companies:", "\n">>]}

\* raw tool selections: up to MaxTools entries joined by commas, an entry
\* being empty, a catalog number, or the unknown number 8
ToolEntries == {<< >>} \cup {<<n>> : n \in (DOMAIN NUMBER_TO_TOOLS_NAME) \cup {"8"}}

RECURSIVE SelectionsOf(_)
SelectionsOf(n) ==
    IF n = 1 THEN ToolEntries
    ELSE {s \o <<",">> \o e : s \in SelectionsOf(n - 1), e \in ToolEntries}

RawSelections == UNION {SelectionsOf(n) : n \in 1..MaxTools}

(***************************************************************************)
(* Spec: main()                                                            *)
(***************************************************************************)
Init ==
    /\ project_tools \in RawSelections
    /\ example_pipeline \in BOOLEAN
    /\ pyproject0 \in Pyprojects
    /\ \E project \in Projects :
          /\ fs0 = project.tree
          /\ requirements0 = project.requirements
          /\ catalog_yml0 = project.catalog
    /\ selected_tools_list = << >>
    /\ requirements = requirements0
    /\ pyproject = pyproject0
    /\ fs = fs0
    /\ catalog_yml = catalog_yml0
    /\ pc = "convert"
    /\ run_err = ""
    /\ log = << >>
    /\ SectionIdle
    /\ FileIdle

\* line 274: _convert_tool_numbers_to_readable_names(selected_tools.split(","))
Convert ==
    /\ pc = "convert"
    /\ LET out == _convert_tool_numbers_to_readable_names(Split(project_tools, ","))
       IN  /\ selected_tools_list' = out.names
           /\ run_err' = out.err
           /\ pc' = IF out.status = "raised" THEN "aborted" ELSE Following(pc)
    /\ UNCHANGED <<requirements, pyproject, fs, catalog_yml, log>>
    /\ UNCHANGED <<inputVars, sectVars, fileVars>>

\* the effect of _remove_from_toml as the last or only file edit of a rule
\* step: on a raise the run aborts with the edits made before it
TomlEdit(sections, before, after) ==
    LET out == _remove_from_toml(pyproject, sections)
    IN  IF out.status = "raised"
        THEN /\ pyproject' = pyproject
             /\ run_err' = out.err
             /\ pc' = "aborted"
             /\ log' = log \o before
        ELSE /\ pyproject' = [ok |-> TRUE, data |-> out.data]
             /\ run_err' = run_err
             /\ pc' = Following(pc)
             /\ log' = log \o before \o after

Skip ==
    /\ pc' = Following(pc)
    /\ UNCHANGED <<requirements, pyproject, fs, catalog_yml, log, run_err>>

\* lines 214-216
LintRule ==
    /\ pc = "lint"
    /\ IF LintAbsent(selected_tools_list)
       THEN /\ requirements' = _remove_from_file(requirements, lint_requirements)
            /\ TomlEdit(lint_pyproject_requirements,
                        <<"lint:_remove_from_file">>, <<"lint:_remove_from_toml">>)
            /\ UNCHANGED <<fs, catalog_yml>>
       ELSE Skip
    /\ UNCHANGED <<selected_tools_list, inputVars, sectVars, fileVars>>

\* lines 218-221
TestRule ==
    /\ pc = "test"
    /\ IF TestAbsent(selected_tools_list)
       THEN LET out == _remove_from_toml(pyproject, test_pyproject_requirements)
            IN  /\ requirements' = _remove_from_file(requirements, test_requirements)
                /\ IF out.status = "raised"
                   THEN /\ pc' = "aborted"
                        /\ run_err' = out.err
                        /\ log' = log \o <<"test:_remove_from_file">>
                        /\ UNCHANGED <<pyproject, fs>>
                   ELSE /\ pc' = Following(pc)
                        /\ pyproject' = [ok |-> TRUE, data |-> out.data]
                        /\ fs' = _remove_dir(fs, TestsDir)
                        /\ log' = log \o <<"test:_remove_from_file",
                                           "test:_remove_from_toml", "test:_remove_dir">>
                        /\ UNCHANGED run_err
                /\ UNCHANGED catalog_yml
       ELSE Skip
    /\ UNCHANGED <<selected_tools_list, inputVars, sectVars, fileVars>>

\* lines 223-224
LoggingRule ==
    /\ pc = "logging"
    /\ IF LoggingAbsent(selected_tools_list)
       THEN /\ fs' = _remove_file(fs, LoggingYml)
            /\ log' = Append(log, "logging:_remove_file")
            /\ pc' = Following(pc)
            /\ UNCHANGED <<requirements, pyproject, catalog_yml, run_err>>
       ELSE Skip
    /\ UNCHANGED <<selected_tools_list, inputVars, sectVars, fileVars>>

\* lines 226-228
DocsRule ==
    /\ pc = "docs"
    /\ IF DocsAbsent(selected_tools_list)
       THEN LET out == _remove_from_toml(pyproject, docs_pyproject_requirements)
            IN  /\ IF out.status = "raised"
                   THEN /\ pc' = "aborted"
                        /\ run_err' = out.err
                        /\ UNCHANGED <<pyproject, fs, log>>
                   ELSE /\ pc' = Following(pc)
                        /\ pyproject' = [ok |-> TRUE, data |-> out.data]
                        /\ fs' = _remove_dir(fs, DocsDir)
                        /\ log' = log \o <<"docs:_remove_from_toml", "docs:_remove_dir">>
                        /\ UNCHANGED run_err
                /\ UNCHANGED <<requirements, catalog_yml>>
       ELSE Skip
    /\ UNCHANGED <<selected_tools_list, inputVars, sectVars, fileVars>>

\* lines 230-231
DataRule ==
    /\ pc = "data"
    /\ IF DataAbsent(selected_tools_list, example_pipeline)
       THEN /\ fs' = _remove_dir(fs, DataDir)
            /\ log' = Append(log, "data:_remove_dir")
            /\ pc' = Following(pc)
            /\ UNCHANGED <<requirements, pyproject, catalog_yml, run_err>>
       ELSE Skip
    /\ UNCHANGED <<selected_tools_list, inputVars, sectVars, fileVars>>

\* lines 233-243
StarterRule ==
    /\ pc = "starter"
    /\ IF StarterCleanup(selected_tools_list, example_pipeline)
       THEN /\ fs' = _remove_pyspark_viz_starter_files(
                        "Kedro Viz" \in Elements(selected_tools_list), fs)
            /\ catalog_yml' = IF CatalogYml \in fs THEN << >> ELSE catalog_yml
            /\ requirements' = _remove_extras_from_kedro_datasets(
                                  _remove_from_file(requirements,
                                                    example_pipeline_requirements))
            /\ log' = log \o <<"starter:_remove_pyspark_viz_starter_files",
                               "starter:_remove_from_file",
                               "starter:_remove_extras_from_kedro_datasets">>
            /\ pc' = Following(pc)
            /\ UNCHANGED <<pyproject, run_err>>
       ELSE Skip
    /\ UNCHANGED <<selected_tools_list, inputVars, sectVars, fileVars>>

\* line 283
SortRequirements ==
    /\ pc = "sort"
    /\ requirements' = sort_requirements(requirements)
    /\ log' = Append(log, "sort_requirements")
    /\ pc' = Following(pc)
    /\ UNCHANGED <<selected_tools_list, pyproject, fs, catalog_yml, run_err>>
    /\ UNCHANGED <<inputVars, sectVars, fileVars>>

Next ==
    \/ Convert
    \/ LintRule
    \/ TestRule
    \/ LoggingRule
    \/ DocsRule
    \/ DataRule
    \/ StarterRule
    \/ SortRequirements

Spec == Init /\ [][Next]_vars

(***************************************************************************)
(* Claims about main (checked under Spec)                                  *)
(***************************************************************************)
Selected(name) == name \in Elements(selected_tools_list)

Logged(entry) == entry \in Elements(log)

Finished == pc = "done"

\* some line of the manifest is, stripped, the given requirement
ManifestHas(requirement) ==
    \E i \in DOMAIN ReadLines(requirements) : Strip(ReadLines(requirements)[i]) = requirement

ManifestHad(requirement) ==
    \E i \in DOMAIN ReadLines(requirements0) :
        Strip(ReadLines(requirements0)[i]) = requirement

ManifestHasExtras ==
    \E i \in DOMAIN ReadLines(requirements) : HasExtras(ReadLines(requirements)[i])

ManifestHadExtras ==
    \E i \in DOMAIN ReadLines(requirements0) : HasExtras(ReadLines(requirements0)[i])

Below(tree, dir) == {q \in tree : IsPrefix(dir, q)}

\* C3: after a completed pass a selected Testing keeps tests, a selected
\* Documentation keeps docs, a selected Custom Logging keeps conf/logging.yml.
C3_SelectedToolsKeepArtifacts ==
    Finished =>
        /\ (Selected("Testing") /\ TestsDir \in fs0) => TestsDir \in fs
        /\ (Selected("Documentation") /\ DocsDir \in fs0) => DocsDir \in fs
        /\ (Selected("Custom Logging") /\ LoggingYml \in fs0) => LoggingYml \in fs

LintRuleDone ==
    /\ Logged("lint:_remove_from_file") /\ Logged("lint:_remove_from_toml")
    /\ ~ManifestHas(<<"ruff~=0.1.8">>)
    /\ <<"tool", "ruff">> \notin DOMAIN pyproject.data

TestRuleDone ==
    /\ Logged("test:_remove_from_file") /\ Logged("test:_remove_from_toml")
    /\ Logged("test:_remove_dir")
    /\ ~ManifestHas(<<"pytest~=7.2">>) /\ ~ManifestHas(<<"pytest-cov~=3.0">>)
    /\ ~ManifestHas(<<"pytest-mock>=1.7.1,", " ", "<2.0">>)
    /\ <<"tool", "pytest", "ini_options">> \notin DOMAIN pyproject.data
    /\ <<"tool", "coverage", "report">> \notin DOMAIN pyproject.data
    /\ TestsDir \notin fs

LoggingRuleDone == Logged("logging:_remove_file") /\ LoggingYml \notin fs

DocsRuleDone ==
    /\ Logged("docs:_remove_from_toml") /\ Logged("docs:_remove_dir")
    /\ <<"project", "optional-dependencies">> \notin DOMAIN pyproject.data
    /\ DocsDir \notin fs

DataRuleDone == Logged("data:_remove_dir") /\ DataDir \notin fs

\* C4 as stated: in a completed pass every one of the five categories that is
\* absent from the selection has had its removal rule executed, whatever
\* example_pipeline is.
C4_AbsentCategoryRuleFires ==
    Finished =>
        /\ ~Selected("Linting") => LintRuleDone
        /\ ~Selected("Testing") => TestRuleDone
        /\ ~Selected("Custom Logging") => LoggingRuleDone
        /\ ~Selected("Documentation") => DocsRuleDone
        /\ ~Selected("Data Structure") => DataRuleDone

\* C4 amended: as stated for Linting, Testing, Logging and Documentation; the
\* Data Structure rule is executed when the category is absent and
\* example_pipeline is false.
C4_AbsentCategoryRuleFiresDataUnlessExample ==
    Finished =>
        /\ ~Selected("Linting") => LintRuleDone
        /\ ~Selected("Testing") => TestRuleDone
        /\ ~Selected("Custom Logging") => LoggingRuleDone
        /\ ~Selected("Documentation") => DocsRuleDone
        /\ (~Selected("Data Structure") /\ ~example_pipeline) => DataRuleDone

\* C4 witness: a pass over the starter project completed with none of the
\* five categories selected and no example pipeline.
C4_Witness ==
    /\ Finished
    /\ fs0 = StarterTree
    /\ pyproject0.data = FullPyproject
    /\ ~example_pipeline
    /\ \A name \in {"Linting", "Testing", "Custom Logging", "Documentation",
                    "Data Structure"} : ~Selected(name)

\* the raw selection's entries are all catalog numbers
AllEntriesKnown ==
    \A i \in DOMAIN Split(project_tools, ",") : KnownTool(Split(project_tools, ",")[i])

\* C5: the conversion maps every catalog number to its name, and for the
\* empty raw selection returns <<"None">> without raising.
C5_EmptySelectionGivesNone ==
    pc # "convert" =>
        /\ project_tools = << >> =>
              (run_err # "KeyError" /\ selected_tools_list = <<"None">>)
        /\ AllEntriesKnown =>
              selected_tools_list =
                  [i \in DOMAIN Split(project_tools, ",") |->
                      NUMBER_TO_TOOLS_NAME[Split(project_tools, ",")[i][1]]]

CleanupDue == (Selected("PySpark") \/ Selected("Kedro Viz")) /\ ~example_pipeline

CleanupRan ==
    /\ Logged("starter:_remove_pyspark_viz_starter_files")
    /\ Logged("starter:_remove_from_file")
    /\ Logged("starter:_remove_extras_from_kedro_datasets")

CleanupNotRun ==
    /\ ~Logged("starter:_remove_pyspark_viz_starter_files")
    /\ ~Logged("starter:_remove_from_file")
    /\ ~Logged("starter:_remove_extras_from_kedro_datasets")

\* what the cleanup leaves, the reporting pipeline aside
CleanupEffects ==
    /\ RawDatasets(fs) = {}
    /\ CatalogYml \in fs => catalog_yml = << >>
    /\ ParameterFiles(fs) = {}
    /\ PipelinesDir \o PlainPath(<<"data_science">>) \notin fs
    /\ PipelinesDir \o PlainPath(<<"data_processing">>) \notin fs
    /\ TestDataScience \notin fs
    /\ ~ManifestHas(<<"seaborn~=0.12.1">>) /\ ~ManifestHas(<<"scikit-learn~=1.0">>)
    /\ ~ManifestHasExtras

\* the files the cleanup is about, the test file aside, are as generated
StarterFilesKept ==
    /\ RawDatasets(fs) = RawDatasets(fs0)
    /\ CatalogYml \in fs /\ catalog_yml = catalog_yml0
    /\ ParameterFiles(fs) = ParameterFiles(fs0)
    /\ Below(fs, PipelinesDir) = Below(fs0, PipelinesDir)
    /\ ManifestHas(<<"seaborn~=0.12.1">>) = ManifestHad(<<"seaborn~=0.12.1">>)
    /\ ManifestHas(<<"scikit-learn~=1.0">>) = ManifestHad(<<"scikit-learn~=1.0">>)
    /\ ManifestHasExtras = ManifestHadExtras

\* C6 as stated: the cleanup, the deletion of the reporting pipeline included,
\* runs iff PySpark or Kedro Viz is selected and example_pipeline is false;
\* with example_pipeline true and PySpark selected nothing of it executes and
\* all its files are unchanged.
C6_StarterCleanupIff ==
    Finished =>
        /\ CleanupDue => (CleanupRan /\ CleanupEffects /\ ReportingDir \notin fs)
        /\ ~CleanupDue => CleanupNotRun
        /\ (example_pipeline /\ Selected("PySpark")) =>
              /\ StarterFilesKept
              /\ TestDataScience \in fs <=> TestDataScience \in fs0

\* C6 amended: in a completed pass the cleanup runs iff PySpark or Kedro Viz
\* is selected and example_pipeline is false, deleting the reporting pipeline
\* only when Kedro Viz is selected; with example_pipeline true and PySpark
\* selected nothing of it executes and its files are unchanged, except that
\* tests/pipelines/test_data_science.py goes with the tests directory when
\* Testing is not selected.
C6_StarterCleanupIffReportingOnlyViz ==
    Finished =>
        /\ CleanupDue =>
              /\ CleanupRan /\ CleanupEffects
              /\ ReportingDir \in fs <=> (ReportingDir \in fs0 /\ ~Selected("Kedro Viz"))
        /\ ~CleanupDue => CleanupNotRun
        /\ (example_pipeline /\ Selected("PySpark")) =>
              /\ StarterFilesKept
              /\ TestDataScience \in fs <=>
                    (TestDataScience \in fs0 /\ Selected("Testing"))

\* C6 witness: the cleanup has run on the starter project in a completed pass.
C6_Witness ==
    /\ Finished
    /\ fs0 = StarterTree
    /\ CleanupDue
    /\ CleanupRan

\* C7 as stated: a pyproject.toml that does not parse never lets the pass
\* complete, whatever is selected.
C7_MalformedAlwaysFatal == ~pyproject0.ok => ~Finished

\* C7 amended: a pyproject.toml that does not parse aborts the pass whenever
\* Linting, Testing or Documentation is not selected (the pass never gets
\* past the three rules that load it); with all three selected the document
\* is never loaded.
C7_MalformedFatalWhenLoaded ==
    (~pyproject0.ok /\ pc \in {"data", "starter", "sort", "done"}) =>
        (Selected("Linting") /\ Selected("Testing") /\ Selected("Documentation"))

\* C7 witness: the pass aborted on the parse error.
C7_Witness ==
    /\ ~pyproject0.ok
    /\ pc = "aborted"
    /\ run_err = "TomlDecodeError"

\* C8: in a completed pass sort_requirements ran exactly once and last: every
\* removal call, the cleanup's manifest edits included, precedes it, and the
\* manifest is still in normal form at the end.
C8_SortIsLastAndOnce ==
    /\ \A i \in 1..(Len(log) - 1) : log[i] # "sort_requirements"
    /\ Finished =>
          /\ log # << >>
          /\ log[Len(log)] = "sort_requirements"
          /\ Cardinality(Positions(log, "sort_requirements")) = 1
          /\ requirements = sort_requirements(requirements)

\* C8 witness: a completed pass in which the cleanup edited the manifest.
C8_Witness ==
    /\ Finished
    /\ Logged("starter:_remove_extras_from_kedro_datasets")
    /\ ManifestHadExtras

====
